---- MODULE Spec2Model ----
(***************************************************************************)
(* CommandRegistry of packages/core/src/common/command.ts as a state       *)
(* machine: the command map, the handler lists, the disposables handed     *)
(* out by the registration calls, the executions in flight, and the        *)
(* outcome of the last call.                                               *)
(*                                                                         *)
(* Command ids are ordinary keys: names that every JavaScript object       *)
(* inherits from Object.prototype ("constructor", "toString", ...) are     *)
(* outside the id set of this model.                                       *)
(***************************************************************************)
EXTENDS Naturals, Sequences, FiniteSets

VARIABLES _commands, _handlers, entryReg, disposables, inFlight, result

vars == <<_commands, _handlers, entryReg, disposables, inFlight, result>>

\* ------------------------------------------------------------------ bounds

\* registration calls that return a disposable, over all the ids
MaxRegistrations == 2
\* the same, in the runs that use one id only
MaxDeepRegistrations == 3

\* ------------------------------------------------------------------ inputs

Ids == {"A", "B"}
DeepIds == {"A"}
Handlers == {"h1", "h2"}
\* Argument lists.  An argument is the number 1 or an object that holds a
\* reference to itself; the second kind is passed to executeCommand only,
\* the predicates of the handlers below look at the number of arguments.
Args == {<<>>, <<"1">>}
ExecuteArgs == Args \cup {<<"cyclic">>}

\* JSON.stringify(args): the text, token by token; it raises a TypeError
\* for a value that refers to itself
stringifyThrows(args) == \E i \in 1..Len(args) : args[i] = "cyclic"
stringify(args) ==
    <<"[">> \o [i \in 1..Len(args) |-> args[i]] \o <<"]">>

\* the text appended to the no-active-handler message
argsMessage(args) ==
    IF Len(args) > 0 THEN <<" (args: ">> \o stringify(args) \o <<")">> ELSE <<>>

\* the value of a missing handler (JavaScript undefined)
undefined == "undefined"
\* the value of a missing Command
undefinedCommand == [id |-> "undefined", label |-> 0]

\* A Command object.  Every registerCommand call passes a fresh one; its
\* label is the serial number of the call, which tells two Command objects
\* with the same id apart.
Command(id, label) == [id |-> id, label |-> label]

\* The handler objects the callers pass in.  h1 has neither predicate and
\* its execute raises an error when called with arguments; h2 is enabled
\* exactly when called with arguments and visible exactly when called
\* without, and its execute always returns.
hasIsEnabled(h) == h = "h2"
isEnabledOf(h, args) == Len(args) > 0
hasIsVisible(h) == h = "h2"
isVisibleOf(h, args) == Len(args) = 0
executeThrows(h, args) == (h = "h1") /\ Len(args) > 0
\* the value execute returns
executeOf(h, args) == <<h, args>>
\* the error object execute raises
executeError(h, args) == <<h, args>>

\* ------------------------------------------------------- registry state

\* The two fields of the registry, and per handler-list slot the disposable
\* whose registration call pushed it (a history value, not in the code).
State(c, h, e) == [commands |-> c, handlers |-> h, entries |-> e]

\* this._commands[id]
getCommand(cmds, id) ==
    IF \E i \in 1..Len(cmds) : cmds[i].id = id
    THEN cmds[CHOOSE i \in 1..Len(cmds) : cmds[i].id = id]
    ELSE undefinedCommand

\* Object.keys(this._commands)
commandIds(cmds) == [i \in 1..Len(cmds) |-> cmds[i].id]

RECURSIVE commandsFrom(_, _)
commandsFrom(cmds, ids) ==
    IF ids = <<>> THEN <<>>
    ELSE LET cmd == getCommand(cmds, Head(ids))
             rest == commandsFrom(cmds, Tail(ids))
         IN IF cmd # undefinedCommand THEN <<cmd>> \o rest ELSE rest

\* get commands()
commands(cmds) == commandsFrom(cmds, commandIds(cmds))

\* a delete that leaves the entry in place
deleteNothing(cmds, id) == cmds

\* delete this._commands[id]
deleteCommand(cmds, id) ==
    SelectSeq(cmds, LAMBDA c : c.id # id)

\* handlers.indexOf(handler), 1-based, 0 when not found
indexOf(list, handler) ==
    IF \E i \in 1..Len(list) : list[i] = handler
    THEN CHOOSE i \in 1..Len(list) :
            list[i] = handler /\ \A j \in 1..(i - 1) : list[j] # handler
    ELSE 0

\* handlers.splice(idx, 1), idx 1-based
splice(list, idx) ==
    [i \in 1..(Len(list) - 1) |-> IF i < idx THEN list[i] ELSE list[i + 1]]

\* a dispose closure that drops the handlers of the id with the Command
disposeCommandAndHandlers(st, id) ==
    [st EXCEPT !.commands = deleteCommand(st.commands, id),
               !.handlers = [i \in DOMAIN st.handlers |->
                               IF i = id THEN <<>> ELSE st.handlers[i]],
               !.entries = [i \in DOMAIN st.entries |->
                               IF i = id THEN <<>> ELSE st.entries[i]]]

\* the dispose closure of doRegisterCommand
disposeCommand(st, id) ==
    [st EXCEPT !.commands = deleteCommand(st.commands, id)]

\* doRegisterCommand: the new state, or thrown
doRegisterCommand(st, command) ==
    IF getCommand(st.commands, command.id) # undefinedCommand
    THEN [thrown |-> TRUE, st |-> st]
    ELSE [thrown |-> FALSE,
          st |-> [st EXCEPT !.commands = Append(st.commands, command)]]

\* registerHandler that puts the handler at the front of the list
registerHandlerFirst(st, commandId, handler, d) ==
    LET hs == IF commandId \in DOMAIN st.handlers
              THEN st.handlers
              ELSE [i \in DOMAIN st.handlers \cup {commandId} |->
                        IF i = commandId THEN <<>> ELSE st.handlers[i]]
        es == IF commandId \in DOMAIN st.entries
              THEN st.entries
              ELSE [i \in DOMAIN st.entries \cup {commandId} |->
                        IF i = commandId THEN <<>> ELSE st.entries[i]]
    IN [st EXCEPT !.handlers = [hs EXCEPT ![commandId] = <<handler>> \o @],
                  !.entries = [es EXCEPT ![commandId] = <<d>> \o @]]

\* registerHandler: pushes handler on the list of commandId, creating it
registerHandler(st, commandId, handler, d) ==
    LET hs == IF commandId \in DOMAIN st.handlers
              THEN st.handlers
              ELSE [i \in DOMAIN st.handlers \cup {commandId} |->
                        IF i = commandId THEN <<>> ELSE st.handlers[i]]
        es == IF commandId \in DOMAIN st.entries
              THEN st.entries
              ELSE [i \in DOMAIN st.entries \cup {commandId} |->
                        IF i = commandId THEN <<>> ELSE st.entries[i]]
    IN [st EXCEPT !.handlers = [hs EXCEPT ![commandId] = Append(@, handler)],
                  !.entries = [es EXCEPT ![commandId] = Append(@, d)]]

\* a dispose closure that takes the handler off the list of every id
disposeHandlerEverywhere(st, commandId, handler) ==
    LET cut(seq, id) == IF indexOf(st.handlers[id], handler) >= 1
                        THEN splice(seq, indexOf(st.handlers[id], handler))
                        ELSE seq
    IN [st EXCEPT !.handlers = [id \in DOMAIN st.handlers |->
                                   cut(st.handlers[id], id)],
                  !.entries = [id \in DOMAIN st.entries |->
                                   cut(st.entries[id], id)]]

\* the dispose closure of registerHandler
disposeHandler(st, commandId, handler) ==
    LET idx == indexOf(st.handlers[commandId], handler)
    IN IF idx >= 1
       THEN [st EXCEPT !.handlers[commandId] = splice(@, idx),
                       !.entries[commandId] = splice(@, idx)]
       ELSE st

\* registerCommand that registers the handler before the Command
registerCommandHandlerFirst(st, command, handler, d) ==
    IF handler # undefined
    THEN doRegisterCommand(registerHandler(st, command.id, handler, d), command)
    ELSE doRegisterCommand(st, command)

\* registerCommand(command, handler?): handler = undefined when not passed
registerCommand(st, command, handler, d) ==
    LET r == doRegisterCommand(st, command)
    IN IF handler # undefined
       THEN IF r.thrown
            THEN r
            ELSE [thrown |-> FALSE,
                  st |-> registerHandler(r.st, command.id, handler, d)]
       ELSE r

\* a scan that keeps going and returns the last enabled handler
RECURSIVE lastEnabled(_, _)
lastEnabled(list, args) ==
    IF list = <<>> THEN undefined
    ELSE LET h == list[Len(list)]
         IN IF ~hasIsEnabled(h) \/ isEnabledOf(h, args)
            THEN h
            ELSE lastEnabled(SubSeq(list, 1, Len(list) - 1), args)

\* the loop of getActiveHandler over the handler list
RECURSIVE firstEnabled(_, _)
firstEnabled(list, args) ==
    IF list = <<>> THEN undefined
    ELSE IF ~hasIsEnabled(Head(list)) \/ isEnabledOf(Head(list), args)
         THEN Head(list)
         ELSE firstEnabled(Tail(list), args)

\* getActiveHandler(commandId, ...args)
getActiveHandler(handlers, commandId, args) ==
    IF commandId \in DOMAIN handlers
    THEN firstEnabled(handlers[commandId], args)
    ELSE undefined

\* a scan for the visible handler that also asks isEnabled
RECURSIVE firstVisibleAndEnabled(_, _)
firstVisibleAndEnabled(list, args) ==
    IF list = <<>> THEN undefined
    ELSE IF /\ ~hasIsVisible(Head(list)) \/ isVisibleOf(Head(list), args)
            /\ ~hasIsEnabled(Head(list)) \/ isEnabledOf(Head(list), args)
         THEN Head(list)
         ELSE firstVisibleAndEnabled(Tail(list), args)

\* the loop of getVisibleHandler over the handler list
RECURSIVE firstVisible(_, _)
firstVisible(list, args) ==
    IF list = <<>> THEN undefined
    ELSE IF ~hasIsVisible(Head(list)) \/ isVisibleOf(Head(list), args)
         THEN Head(list)
         ELSE firstVisible(Tail(list), args)

\* getVisibleHandler(commandId, ...args)
getVisibleHandler(handlers, commandId, args) ==
    IF commandId \in DOMAIN handlers
    THEN firstVisible(handlers[commandId], args)
    ELSE undefined

\* isEnabled(command, ...args)
isEnabled(handlers, command, args) ==
    getActiveHandler(handlers, command, args) # undefined

\* isVisible that asks for the active handler
isVisibleByActiveHandler(handlers, command, args) ==
    getActiveHandler(handlers, command, args) # undefined

\* isVisible(command, ...args)
isVisible(handlers, command, args) ==
    getVisibleHandler(handlers, command, args) # undefined

\* executeCommand that invokes the active handler and drops what it returns
executeCommandDropsValue(handlers, command, args) ==
    LET handler == getActiveHandler(handlers, command, args)
    IN IF handler # undefined
       THEN [status |-> "resolved", error |-> "",
             invoked |-> <<<<handler, args>>>>,
             value |-> <<undefined, <<>>>>]
       ELSE [status |-> "rejected", error |-> "noActiveHandler",
             invoked |-> <<>>,
             value |-> <<command, argsMessage(args)>>]

\* the handlers of list that are enabled for args, in list order
enabledOnes(list, args) ==
    SelectSeq(list, LAMBDA h : ~hasIsEnabled(h) \/ isEnabledOf(h, args))

\* executeCommand that catches the error of a handler and goes on with the
\* next enabled handler of the list
RECURSIVE executeFirstThatReturns(_, _, _, _)
executeFirstThatReturns(list, command, args, invoked) ==
    IF list = <<>>
    THEN [status |-> "rejected", error |-> "noActiveHandler",
          invoked |-> invoked, value |-> <<command, argsMessage(args)>>]
    ELSE IF executeThrows(Head(list), args)
         THEN executeFirstThatReturns(Tail(list), command, args,
                                      Append(invoked, <<Head(list), args>>))
         ELSE [status |-> "resolved", error |-> "",
               invoked |-> Append(invoked, <<Head(list), args>>),
               value |-> executeOf(Head(list), args)]

executeCommandWithFallback(handlers, command, args) ==
    executeFirstThatReturns(
        IF command \in DOMAIN handlers
        THEN enabledOnes(handlers[command], args) ELSE <<>>,
        command, args, <<>>)

\* executeCommand(command, ...args): the handler whose execute it invokes and
\* the outcome it delivers.  "thrown" is an error raised in the caller's
\* turn, "resolved" and "rejected" are the two ways the promise settles.
executeCommand(handlers, command, args) ==
    LET handler == getActiveHandler(handlers, command, args)
    IN IF handler # undefined
       THEN IF executeThrows(handler, args)
            THEN [status |-> "thrown", error |-> "handlerError",
                  invoked |-> <<<<handler, args>>>>,
                  value |-> executeError(handler, args)]
            ELSE [status |-> "resolved", error |-> "",
                  invoked |-> <<<<handler, args>>>>,
                  value |-> executeOf(handler, args)]
       ELSE IF Len(args) > 0 /\ stringifyThrows(args)
            THEN [status |-> "thrown", error |-> "TypeError",
                  invoked |-> <<>>, value |-> <<command, <<>>>>]
            ELSE [status |-> "rejected", error |-> "noActiveHandler",
                  invoked |-> <<>>,
                  value |-> <<command, argsMessage(args)>>]

\* An execution in flight: executeCommand(id, args) invoked execute of
\* handler, and the promise that execute returned is not settled yet.
Execution(id, args, handler) == [id |-> id, args |-> args, handler |-> handler]

\* a settlement that asks the registry again for the handler of the id
settleByLookup(handlers, e) ==
    LET r == executeCommand(handlers, e.id, e.args)
    IN [status |-> r.status, value |-> r.value,
        handler |-> getActiveHandler(handlers, e.id, e.args)]

\* How the promise executeCommand returned for the execution e settles:
\* Promise.resolve(p) follows the promise p that execute returned, whatever
\* the handler lists hold by then.
settle(handlers, e) ==
    [status |-> "resolved", value |-> executeOf(e.handler, e.args),
     handler |-> e.handler]

\* DisposableCollection.dispose of the collection registerCommand returns:
\* it releases the two disposables pushed on it, in one order or the other.
\* Released again, the collection is either empty by then (again = FALSE)
\* or releases its two disposables once more.
disposeCollection(st, id, handler, commandFirst, again, releases) ==
    IF releases > 0 /\ ~again
    THEN st
    ELSE IF commandFirst
         THEN disposeHandler(disposeCommand(st, id), id, handler)
         ELSE disposeCommand(disposeHandler(st, id, handler), id)

\* ------------------------------------------------------------- onStart

\* A call that the registerCommands callback of a contribution makes on the
\* registry it is given.
call(op, id, handler) == [op |-> op, id |-> id, handler |-> handler]

\* The contributions bound to CommandContribution, and what the
\* registerCommands callback of each one calls, in order.
Contributions == {"c1", "c2", "c3"}
registerCommandsOf(c) ==
    IF c = "c1" THEN <<call("registerCommand", "A", "h1")>>
    ELSE IF c = "c2" THEN <<call("registerHandler", "A", "h2")>>
    ELSE <<call("registerHandler", "B", "h1"),
           call("registerCommand", "A", undefined)>>

\* What getContributions() of the provider can return: contributions in the
\* order the provider chose, none of them twice.
ContributionLists ==
    {s \in UNION {[1..n -> Contributions] : n \in 0..Cardinality(Contributions)} :
        \A i, j \in DOMAIN s : i # j => s[i] # s[j]}

\* The calls of one registerCommands callback on the registry.  run is the
\* registry with the disposables handed out and the contributions invoked so
\* far; an error of a call ends the callback.
RECURSIVE runCalls(_, _)
runCalls(run, calls) ==
    IF calls = <<>> \/ run.thrown THEN run
    ELSE LET c == Head(calls)
             d == Len(run.disposables) + 1
             r == IF c.op = "registerCommand"
                  THEN registerCommand(run.st, Command(c.id, d), c.handler, d)
                  ELSE [thrown |-> FALSE,
                        st |-> registerHandler(run.st, c.id, c.handler, d)]
             kind == IF c.op = "registerHandler" THEN "handler"
                     ELSE IF c.handler # undefined THEN "composite"
                     ELSE "command"
         IN runCalls([run EXCEPT
                         !.thrown = r.thrown,
                         !.st = r.st,
                         !.disposables =
                            IF r.thrown THEN @
                            ELSE Append(@, [kind |-> kind, id |-> c.id,
                                            handler |-> c.handler,
                                            releases |-> 0])],
                     Tail(calls))

\* contrib.registerCommands(this)
registerCommands(run, contrib) ==
    runCalls([run EXCEPT !.called = Append(@, contrib)],
             registerCommandsOf(contrib))

\* onStart that walks the contributions from the last one to the first
RECURSIVE onStartReversed(_, _)
onStartReversed(run, contributions) ==
    IF contributions = <<>> THEN run
    ELSE LET r == registerCommands(run, contributions[Len(contributions)])
         IN IF r.thrown THEN r
            ELSE onStartReversed(r, SubSeq(contributions, 1,
                                           Len(contributions) - 1))

\* onStart that catches the error of a contribution and goes on
RECURSIVE onStartContinues(_, _)
onStartContinues(run, contributions) ==
    IF contributions = <<>> THEN run
    ELSE onStartContinues(
            [registerCommands(run, Head(contributions)) EXCEPT !.thrown = FALSE],
            Tail(contributions))

\* onStart(): the loop over the contributions; an error of a callback
\* leaves the loop
RECURSIVE onStart(_, _)
onStart(run, contributions) ==
    IF contributions = <<>> THEN run
    ELSE LET r == registerCommands(run, Head(contributions))
         IN IF r.thrown THEN r ELSE onStart(r, Tail(contributions))

\* ---------------------------------------------------------- the machine

this == State(_commands, _handlers, entryReg)

noCall == [op |-> "none", id |-> "", args |-> <<>>, command |-> undefinedCommand,
           handler |-> undefined, status |-> "", error |-> "", value |-> <<"", <<>>>>,
           invoked |-> <<>>, ids |-> <<>>, cmds |-> <<>>, bool |-> FALSE, d |-> 0,
           called |-> <<>>, contributions |-> <<>>]

emptyMap == [i \in {} |-> <<>>]

Init ==
    /\ _commands = <<>>
    /\ _handlers = emptyMap
    /\ entryReg = emptyMap
    /\ disposables = <<>>
    /\ inFlight = {}
    /\ result = noCall

\* the fields a registration or a release assigns; it holds no reference to
\* the promises of the executions that were started
Set(s) ==
    /\ _commands' = s.commands
    /\ _handlers' = s.handlers
    /\ entryReg' = s.entries
    /\ inFlight' = inFlight

RegisterCommand(max, id, handler) ==
    /\ Len(disposables) < max
    /\ LET d == Len(disposables) + 1
           label == d
           r == registerCommand(this, Command(id, label), handler, d)
       IN /\ Set(r.st)
          /\ disposables' =
                IF r.thrown THEN disposables
                ELSE Append(disposables,
                       [kind |-> IF handler # undefined THEN "composite" ELSE "command",
                        id |-> id, handler |-> handler, releases |-> 0])
          /\ result' = [noCall EXCEPT !.op = "registerCommand", !.id = id,
                           !.command = Command(id, label), !.handler = handler,
                           !.status = IF r.thrown THEN "thrown" ELSE "returned",
                           !.error = IF r.thrown THEN "alreadyRegistered" ELSE "",
                           !.value = <<id, <<>>>>,
                           !.d = IF r.thrown THEN 0 ELSE d]

RegisterHandler(max, id, handler) ==
    /\ Len(disposables) < max
    /\ LET d == Len(disposables) + 1
       IN /\ Set(registerHandler(this, id, handler, d))
          /\ disposables' = Append(disposables,
                [kind |-> "handler", id |-> id, handler |-> handler, releases |-> 0])
          /\ result' = [noCall EXCEPT !.op = "registerHandler", !.id = id,
                           !.handler = handler, !.status = "returned", !.d = d]

\* dispose() of the d-th disposable handed out, with the closure's effect s;
\* releases counts the calls of dispose() on it: 0, 1, or 2 for "more than
\* once"
Released(d, s) ==
    /\ Set(s)
    /\ disposables' = [disposables EXCEPT ![d].releases = IF @ = 0 THEN 1 ELSE 2]
    /\ result' = [noCall EXCEPT !.op = "dispose", !.id = disposables[d].id,
                     !.handler = disposables[d].handler,
                     !.status = "returned", !.d = d]

\* dispose() of a disposable returned by registerCommand(command)
ReleaseCommand(d) ==
    /\ d \in 1..Len(disposables)
    /\ disposables[d].kind = "command"
    /\ Released(d, disposeCommand(this, disposables[d].id))

\* dispose() of a disposable returned by registerHandler
ReleaseHandler(d) ==
    /\ d \in 1..Len(disposables)
    /\ disposables[d].kind = "handler"
    /\ Released(d, disposeHandler(this, disposables[d].id, disposables[d].handler))

\* dispose() of a collection returned by registerCommand(command, handler)
ReleaseCollection(d, commandFirst, again) ==
    /\ d \in 1..Len(disposables)
    /\ disposables[d].kind = "composite"
    /\ Released(d, disposeCollection(this, disposables[d].id,
                                     disposables[d].handler, commandFirst,
                                     again, disposables[d].releases))

\* what a call that only reads leaves alone
registry == <<_commands, _handlers, entryReg, disposables, inFlight>>

\* getActiveHandler that creates the handler list of an id that has none
GetActiveHandlerCreatesList(id, args) ==
    /\ result' = [noCall EXCEPT !.op = "getActiveHandler", !.id = id, !.args = args,
              !.status = "returned",
              !.handler = getActiveHandler(_handlers, id, args)]
    /\ _handlers' = [i \in DOMAIN _handlers \cup {id} |->
                        IF i \in DOMAIN _handlers THEN _handlers[i] ELSE <<>>]
    /\ entryReg' = [i \in DOMAIN entryReg \cup {id} |->
                        IF i \in DOMAIN entryReg THEN entryReg[i] ELSE <<>>]
    /\ UNCHANGED <<_commands, disposables, inFlight>>

GetActiveHandler(id, args) ==
    /\ result' = [noCall EXCEPT !.op = "getActiveHandler", !.id = id, !.args = args,
              !.status = "returned",
              !.handler = getActiveHandler(_handlers, id, args)]
    /\ UNCHANGED registry

GetVisibleHandler(id, args) ==
    /\ result' = [noCall EXCEPT !.op = "getVisibleHandler", !.id = id, !.args = args,
              !.status = "returned",
              !.handler = getVisibleHandler(_handlers, id, args)]
    /\ UNCHANGED registry

IsEnabled(id, args) ==
    /\ result' = [noCall EXCEPT !.op = "isEnabled", !.id = id, !.args = args,
              !.status = "returned",
              !.bool = isEnabled(_handlers, id, args)]
    /\ UNCHANGED registry

IsVisible(id, args) ==
    /\ result' = [noCall EXCEPT !.op = "isVisible", !.id = id, !.args = args,
              !.status = "returned",
              !.bool = isVisible(_handlers, id, args)]
    /\ UNCHANGED registry

ExecuteCommand(id, args) ==
    /\ LET r == executeCommand(_handlers, id, args)
       IN result' = [noCall EXCEPT !.op = "executeCommand", !.id = id,
                        !.args = args, !.status = r.status, !.error = r.error,
                        !.value = r.value, !.invoked = r.invoked]
    /\ UNCHANGED registry

GetCommand(id) ==
    /\ result' = [noCall EXCEPT !.op = "getCommand", !.id = id, !.status = "returned",
              !.command = getCommand(_commands, id)]
    /\ UNCHANGED registry

GetCommands ==
    /\ result' = [noCall EXCEPT !.op = "commands", !.status = "returned",
              !.cmds = commands(_commands)]
    /\ UNCHANGED registry

GetCommandIds ==
    /\ result' = [noCall EXCEPT !.op = "commandIds", !.status = "returned",
              !.ids = commandIds(_commands)]
    /\ UNCHANGED registry

\* executeCommand(id, args) with handlers whose execute returns a promise
\* that settles later: the call ends with the execution in flight.  A call
\* that finds no handler, or whose handler raises an error, ends as in
\* ExecuteCommand.
StartExecute(id, args) ==
    /\ LET r == executeCommand(_handlers, id, args)
           handler == getActiveHandler(_handlers, id, args)
       IN IF r.status = "resolved"
          THEN /\ inFlight' = inFlight \cup {Execution(id, args, handler)}
               /\ result' = [noCall EXCEPT !.op = "executeCommand", !.id = id,
                                !.args = args, !.status = "pending",
                                !.handler = handler, !.invoked = r.invoked]
          ELSE /\ inFlight' = inFlight
               /\ result' = [noCall EXCEPT !.op = "executeCommand", !.id = id,
                                !.args = args, !.status = r.status,
                                !.error = r.error, !.value = r.value,
                                !.invoked = r.invoked]
    /\ UNCHANGED <<_commands, _handlers, entryReg, disposables>>

\* the promise of the execution e in flight settles
Settle(e) ==
    /\ e \in inFlight
    /\ inFlight' = inFlight \ {e}
    /\ LET r == settle(_handlers, e)
       IN result' = [noCall EXCEPT !.op = "settled", !.id = e.id,
                        !.args = e.args, !.handler = r.handler,
                        !.status = r.status, !.value = r.value]
    /\ UNCHANGED <<_commands, _handlers, entryReg, disposables>>

\* onStart(), called by the hosting process at initialization, before any
\* other caller has registered anything; contributions is what the provider
\* returns.
OnStart(contributions) ==
    /\ disposables = <<>>
    /\ LET r == onStart([thrown |-> FALSE, st |-> this,
                         disposables |-> disposables, called |-> <<>>],
                        contributions)
       IN /\ Set(r.st)
          /\ disposables' = r.disposables
          /\ result' = [noCall EXCEPT !.op = "onStart",
                           !.status = IF r.thrown THEN "thrown" ELSE "returned",
                           !.error = IF r.thrown THEN "alreadyRegistered" ELSE "",
                           !.called = r.called,
                           !.contributions = contributions]

\* A call that registers or releases, by a caller that uses the ids of the
\* set ids and keeps at most max disposables.
Mutate(ids, max) ==
    \/ \E id \in ids, handler \in Handlers \cup {undefined} :
          RegisterCommand(max, id, handler)
    \/ \E id \in ids, handler \in Handlers : RegisterHandler(max, id, handler)
    \/ \E d \in 1..max : ReleaseCommand(d)
    \/ \E d \in 1..max : ReleaseHandler(d)
    \/ \E d \in 1..max, commandFirst \in BOOLEAN, again \in BOOLEAN :
          ReleaseCollection(d, commandFirst, again)

\* Callers that register, release, dispatch and enumerate.
Next ==
    \/ Mutate(Ids, MaxRegistrations)
    \/ \E id \in Ids, args \in Args : GetActiveHandler(id, args)
    \/ \E id \in Ids, args \in ExecuteArgs : ExecuteCommand(id, args)
    \/ \E id \in Ids : GetCommand(id)
    \/ GetCommands
    \/ GetCommandIds

Spec == Init /\ [][Next]_vars

\* Callers that register, release and ask which handler applies.
NextLookup ==
    \/ Mutate(Ids, MaxRegistrations)
    \/ \E id \in Ids, args \in Args : GetActiveHandler(id, args)
    \/ \E id \in Ids, args \in Args : GetVisibleHandler(id, args)
    \/ \E id \in Ids, args \in Args : IsEnabled(id, args)
    \/ \E id \in Ids, args \in Args : IsVisible(id, args)

SpecLookup == Init /\ [][NextLookup]_vars

\* Callers that work on one id, with more registrations.
NextDeep ==
    \/ Mutate(DeepIds, MaxDeepRegistrations)
    \/ \E id \in DeepIds, args \in Args : GetActiveHandler(id, args)
    \/ \E id \in DeepIds : GetCommand(id)

SpecDeep == Init /\ [][NextDeep]_vars

\* Callers that register and release while executions are in flight.
NextAsync ==
    \/ Mutate(Ids, MaxRegistrations)
    \/ \E id \in Ids, args \in Args : StartExecute(id, args)
    \/ \E e \in inFlight : Settle(e)

SpecAsync == Init /\ [][NextAsync]_vars

\* The hosting process starts the registry; afterwards callers release what
\* the contributions registered and look handlers and Commands up.
NextStart ==
    \/ \E contributions \in ContributionLists : OnStart(contributions)
    \/ \E d \in 1..Len(disposables) : ReleaseCommand(d)
    \/ \E d \in 1..Len(disposables) : ReleaseHandler(d)
    \/ \E d \in 1..Len(disposables), commandFirst \in BOOLEAN, again \in BOOLEAN :
          ReleaseCollection(d, commandFirst, again)
    \/ \E id \in Ids, args \in Args : GetActiveHandler(id, args)
    \/ \E id \in Ids : GetCommand(id)

SpecStart == Init /\ [][NextStart]_vars

\* Callers that register and release for every id and use every call that
\* only reads, for one of the ids.
NextQueries ==
    \/ Mutate(Ids, MaxRegistrations)
    \/ \E id \in DeepIds, args \in Args : GetActiveHandler(id, args)
    \/ \E id \in DeepIds, args \in Args : GetVisibleHandler(id, args)
    \/ \E id \in DeepIds, args \in Args : IsEnabled(id, args)
    \/ \E id \in DeepIds, args \in Args : IsVisible(id, args)
    \/ \E id \in DeepIds, args \in ExecuteArgs : ExecuteCommand(id, args)
    \/ \E id \in DeepIds : GetCommand(id)
    \/ GetCommands
    \/ GetCommandIds

SpecQueries == Init /\ [][NextQueries]_vars

\* ------------------------------------------------------------- properties

\* id is registered as a Command
Registered(id) == \E i \in 1..Len(_commands) : _commands[i].id = id

\* the handler list of id, empty when none was ever created
HandlerList(id) == IF id \in DOMAIN _handlers THEN _handlers[id] ELSE <<>>

\* handler h takes part in a scan for the enabled (visible) handler with args
Enabled(h, args) == ~hasIsEnabled(h) \/ isEnabledOf(h, args)
Visible(h, args) == ~hasIsVisible(h) \/ isVisibleOf(h, args)

\* C1: a registerCommand call with an id that is registered as a Command
\* fails with the duplicate-registration error and changes neither the
\* command map nor any handler list, also when it passed a handler.
C1_DuplicateRegistrationFails ==
    [][(result'.op = "registerCommand" /\ Registered(result'.id))
        => /\ result'.status = "thrown"
           /\ result'.error = "alreadyRegistered"
           /\ _commands' = _commands
           /\ _handlers' = _handlers
           /\ disposables' = disposables]_vars

\* a registerCommand call that passed a handler and a Command object other
\* than the registered one has failed
C1_Witness ==
    /\ result.op = "registerCommand"
    /\ result.status = "thrown"
    /\ result.handler # undefined
    /\ Registered(result.id)
    /\ \A i \in 1..Len(_commands) : _commands[i] # result.command

\* C2: getActiveHandler returns the earliest handler of the list that has no
\* isEnabled or whose isEnabled holds for the arguments, whatever comes after
\* it, and undefined exactly when every handler of the list (if any) has an
\* isEnabled that is false for the arguments.
C2_FirstEnabledWins ==
    result.op = "getActiveHandler" =>
        LET list == HandlerList(result.id)
            ok == {i \in 1..Len(list) : Enabled(list[i], result.args)}
        IN /\ \A i \in ok : (\A j \in ok : i <= j) => result.handler = list[i]
           /\ result.handler = undefined <=>
                 \A i \in 1..Len(list) :
                    hasIsEnabled(list[i]) /\ ~isEnabledOf(list[i], result.args)

\* getActiveHandler skipped a disabled first handler and returned the second
C2_Witness ==
    /\ result.op = "getActiveHandler"
    /\ Len(HandlerList(result.id)) = 2
    /\ ~Enabled(HandlerList(result.id)[1], result.args)
    /\ result.handler = HandlerList(result.id)[2]

\* no disposable was released more than once
ReleasedAtMostOnce ==
    \A d \in 1..Len(disposables) : disposables[d].releases <= 1

\* the handlers of the registrations for id that were not released, in
\* registration order
LiveHandlers(id) ==
    LET live == SelectSeq(disposables,
                   LAMBDA x : /\ x.id = id
                              /\ x.kind \in {"handler", "composite"}
                              /\ x.releases = 0)
    IN [i \in 1..Len(live) |-> live[i].handler]

\* list without its p-th element
Without(list, p) == SubSeq(list, 1, p - 1) \o SubSeq(list, p + 1, Len(list))

\* the positions of the slot that the d-th disposable's call pushed
SlotOf(id, d) ==
    IF id \in DOMAIN entryReg
    THEN {p \in 1..Len(entryReg[id]) : entryReg[id][p] = d}
    ELSE {}

\* C3: after registerHandler calls and releases, each disposable released at
\* most once, the handler list of every id is the sequence of the handlers
\* of its registrations not yet released, in registration order.
C3_ListIsLiveRegistrations ==
    (/\ ReleasedAtMostOnce
     /\ \A d \in 1..Len(disposables) : disposables[d].kind = "handler")
    => \A id \in Ids : HandlerList(id) = LiveHandlers(id)

\* C4: dispose() of a registerHandler disposable that was released before
\* changes neither a handler list nor the command map.
C4_HandlerReleasedAgainNoOp ==
    [][(/\ result'.op = "dispose"
        /\ disposables[result'.d].kind = "handler"
        /\ disposables[result'.d].releases >= 1)
        => (_handlers' = _handlers /\ _commands' = _commands)]_vars

\* C5: dispose() of a registerCommand(command) disposable that was released
\* before changes neither the command map nor a handler list.
C5_CommandReleasedAgainNoOp ==
    [][(/\ result'.op = "dispose"
        /\ disposables[result'.d].kind = "command"
        /\ disposables[result'.d].releases >= 1)
        => (_commands' = _commands /\ _handlers' = _handlers)]_vars

\* C6: the first dispose() of the collection returned by
\* registerCommand(cmd, handler) leaves getCommand(cmd.id) undefined and
\* takes the slot that this call pushed, and no other, out of the handler
\* list of cmd.id, in either order of the two releases.
C6_CompositeUndoesBoth ==
    [][(/\ result'.op = "dispose"
        /\ disposables[result'.d].kind = "composite"
        /\ disposables[result'.d].releases = 0
        /\ ReleasedAtMostOnce)
        => /\ \A i \in 1..Len(_commands') : _commands'[i].id # result'.id
           /\ \A p \in SlotOf(result'.id, result'.d) :
                 _handlers'[result'.id] = Without(_handlers[result'.id], p)]_vars

\* every handler of the list of id has an isEnabled that is false for args
NoneEnabled(id, args) ==
    \A i \in 1..Len(HandlerList(id)) : ~Enabled(HandlerList(id)[i], args)

\* the earliest handler of the list of id that takes part for args
EarliestEnabled(id, args) ==
    LET list == HandlerList(id)
        p == CHOOSE i \in 1..Len(list) :
                /\ Enabled(list[i], args)
                /\ \A j \in 1..(i - 1) : ~Enabled(list[j], args)
    IN list[p]

\* C7: executeCommand for an id without a handler that is enabled for the
\* arguments raises nothing in the caller's turn and invokes no execute: its
\* promise is rejected with the no-active-handler message, which carries the
\* id and, when there are arguments, their rendering; the registry is
\* unchanged.
C7_NoActiveHandlerRejects ==
    [][(result'.op = "executeCommand" /\ NoneEnabled(result'.id, result'.args))
        => /\ result'.status = "rejected"
           /\ result'.error = "noActiveHandler"
           /\ result'.invoked = <<>>
           /\ result'.value[1] = result'.id
           /\ Len(result'.args) > 0 =>
                 \E i \in 1..Len(result'.value[2]) :
                    result'.value[2][i] = result'.args[1]
           /\ _commands' = _commands
           /\ _handlers' = _handlers]_vars

\* C8: executeCommand for an id with a handler enabled for the arguments
\* invokes execute once, on the earliest such handler and with the same
\* arguments, and when execute returns a value its promise resolves with
\* that value, whether or not a Command is registered under the id.
C8_ExecutesActiveHandler ==
    (result.op = "executeCommand" /\ ~NoneEnabled(result.id, result.args))
    => LET h == EarliestEnabled(result.id, result.args)
       IN /\ result.invoked = <<<<h, result.args>>>>
          /\ ~executeThrows(h, result.args)
                => /\ result.status = "resolved"
                   /\ result.value = executeOf(h, result.args)

\* executeCommand resolved with the value of the second handler of an id
\* that has no Command, the first handler being disabled
C8_Witness ==
    /\ result.op = "executeCommand"
    /\ result.status = "resolved"
    /\ ~Registered(result.id)
    /\ Len(HandlerList(result.id)) = 2
    /\ ~Enabled(HandlerList(result.id)[1], result.args)
    /\ result.value = executeOf(HandlerList(result.id)[2], result.args)

\* C9: dispose() of a registerCommand(command) disposable leaves the handler
\* list of every id as it was, leaves the Commands of the other ids as they
\* were and leaves the id without a Command, so getActiveHandler and
\* executeCommand answer as before for every id and argument list.
C9_CommandReleaseKeepsHandlers ==
    [][(result'.op = "dispose" /\ disposables[result'.d].kind = "command")
        => /\ _handlers' = _handlers
           /\ \A i \in 1..Len(_commands') : _commands'[i].id # result'.id
           /\ \A id \in Ids \ {result'.id} :
                 getCommand(_commands', id) = getCommand(_commands, id)
           /\ \A id \in Ids, args \in ExecuteArgs :
                 /\ getActiveHandler(_handlers', id, args)
                       = getActiveHandler(_handlers, id, args)
                 /\ executeCommand(_handlers', id, args)
                       = executeCommand(_handlers, id, args)]_vars

\* a Command registration was released for the first time while its id had
\* handlers
C9_Witness ==
    /\ result.op = "dispose"
    /\ disposables[result.d].kind = "command"
    /\ disposables[result.d].releases = 1
    /\ Len(HandlerList(result.id)) > 0
    /\ ~Registered(result.id)

\* the registerCommand disposables that were not released
LiveCommands ==
    {d \in 1..Len(disposables) :
        /\ disposables[d].kind \in {"command", "composite"}
        /\ disposables[d].releases = 0}

\* C10: while no registerCommand disposable was released more than once,
\* commandIds holds exactly the ids of the registrations not released, each
\* once, and commands holds for each of these ids, and for nothing else, the
\* Command that getCommand returns, which is the one that was registered.
C10_CommandIdsAreLiveRegistrations ==
    (\A d \in 1..Len(disposables) :
        disposables[d].kind \in {"command", "composite"}
            => disposables[d].releases <= 1)
    => LET ids == commandIds(_commands)
           cs == commands(_commands)
       IN /\ {ids[i] : i \in 1..Len(ids)} = {disposables[d].id : d \in LiveCommands}
          /\ \A i, j \in 1..Len(ids) : ids[i] = ids[j] => i = j
          /\ Len(cs) = Len(ids)
          /\ \A i \in 1..Len(ids) : cs[i] = getCommand(_commands, ids[i])
          /\ \A d \in LiveCommands :
                getCommand(_commands, disposables[d].id) = Command(disposables[d].id, d)

\* one Command registration was released and another one is registered
C10_Witness ==
    /\ ReleasedAtMostOnce
    /\ \E d \in 1..Len(disposables) :
          disposables[d].kind = "command" /\ disposables[d].releases = 1
    /\ Len(commandIds(_commands)) = 1
    /\ LiveCommands # {}

\* C11: registerHandler(id, h) succeeds whether or not a Command is
\* registered for id; it appends h at the end of the handler list of id
\* (a list that did not exist starts empty), leaves the entries that were
\* there and their order, the lists of the other ids and the command map
\* as they were.
C11_RegisterHandlerAppends ==
    [][result'.op = "registerHandler"
        => /\ result'.status = "returned"
           /\ result'.id \in DOMAIN _handlers'
           /\ _handlers'[result'.id] =
                 Append(HandlerList(result'.id), result'.handler)
           /\ \A id \in DOMAIN _handlers \ {result'.id} :
                 id \in DOMAIN _handlers' /\ _handlers'[id] = _handlers[id]
           /\ DOMAIN _handlers' = DOMAIN _handlers \cup {result'.id}
           /\ _commands' = _commands]_vars

\* a handler was registered behind another one for an id that is not
\* registered as a Command
C11_Witness ==
    /\ result.op = "registerHandler"
    /\ ~Registered(result.id)
    /\ Len(HandlerList(result.id)) = 2
    /\ HandlerList(result.id)[1] # result.handler
    /\ HandlerList(result.id)[2] = result.handler

\* C12: isEnabled(id, args) is true exactly when getActiveHandler(id, args)
\* returns a handler, and isVisible(id, args) is true exactly when
\* getVisibleHandler(id, args) returns a handler.
C12_PredicatesFollowLookups ==
    /\ result.op = "isEnabled" =>
          (result.bool <=>
              getActiveHandler(_handlers, result.id, result.args) # undefined)
    /\ result.op = "isVisible" =>
          (result.bool <=>
              getVisibleHandler(_handlers, result.id, result.args) # undefined)

\* isVisible answered true for an id whose only handler is visible and
\* disabled, so that isEnabled would answer false
C12_Witness ==
    /\ result.op = "isVisible"
    /\ result.bool
    /\ Len(HandlerList(result.id)) = 1
    /\ ~Enabled(HandlerList(result.id)[1], result.args)
    /\ ~isEnabled(_handlers, result.id, result.args)

\* C13: getVisibleHandler returns the earliest handler of the list that has
\* no isVisible or whose isVisible holds for the arguments, and undefined
\* when the list has none; isEnabled plays no part, so a handler that is
\* disabled and visible is returned and the result may differ from the one
\* of getActiveHandler.
C13_FirstVisibleWins ==
    result.op = "getVisibleHandler" =>
        LET list == HandlerList(result.id)
            ok == {i \in 1..Len(list) : Visible(list[i], result.args)}
        IN /\ \A i \in ok : (\A j \in ok : i <= j) => result.handler = list[i]
           /\ ok = {} <=> result.handler = undefined

\* getVisibleHandler returned a first handler that is disabled for the
\* arguments, where getActiveHandler returns the second one
C13_Witness ==
    /\ result.op = "getVisibleHandler"
    /\ Len(HandlerList(result.id)) = 2
    /\ result.handler = HandlerList(result.id)[1]
    /\ ~Enabled(result.handler, result.args)
    /\ getActiveHandler(_handlers, result.id, result.args)
          = HandlerList(result.id)[2]
    /\ HandlerList(result.id)[2] # result.handler

\* C14: when the execute of the handler that executeCommand(id, args)
\* selected raises an error, the caller of executeCommand gets that same
\* error; execute of no other handler of id is invoked, and the command map
\* and the handler lists stay as they were.
C14_HandlerErrorPropagates ==
    [][(/\ result'.op = "executeCommand"
        /\ ~NoneEnabled(result'.id, result'.args)
        /\ executeThrows(EarliestEnabled(result'.id, result'.args), result'.args))
        => LET h == EarliestEnabled(result'.id, result'.args)
           IN /\ result'.status = "thrown"
              /\ result'.value = executeError(h, result'.args)
              /\ result'.invoked = <<<<h, result'.args>>>>
              /\ _commands' = _commands
              /\ _handlers' = _handlers]_vars

\* the error of the first handler reached the caller although the second
\* handler of the list is enabled and its execute would have returned
C14_Witness ==
    /\ result.op = "executeCommand"
    /\ result.status = "thrown"
    /\ result.error = "handlerError"
    /\ Len(HandlerList(result.id)) = 2
    /\ result.value = executeError(HandlerList(result.id)[1], result.args)
    /\ Enabled(HandlerList(result.id)[2], result.args)
    /\ ~executeThrows(HandlerList(result.id)[2], result.args)

\* C15: an execution that executeCommand started completes with the result
\* of the handler it started with, whatever was registered or released
\* while it was in flight and whichever other executions are in flight;
\* registrations and releases leave the executions in flight alone and
\* show only in the executeCommand calls that start afterwards, which
\* invoke the handler that is then the active one.
C15_InFlightKeepsItsHandler ==
    [][/\ result'.op = "settled"
          => LET e == Execution(result'.id, result'.args, result'.handler)
             IN /\ e \in inFlight
                /\ inFlight' = inFlight \ {e}
                /\ result'.status = "resolved"
                /\ result'.value = executeOf(e.handler, e.args)
       /\ result'.op \in {"registerCommand", "registerHandler", "dispose"}
          => inFlight' = inFlight
       /\ (result'.op = "executeCommand" /\ result'.status = "pending")
          => /\ ~NoneEnabled(result'.id, result'.args)
             /\ result'.handler = EarliestEnabled(result'.id, result'.args)
             /\ result'.invoked = <<<<result'.handler, result'.args>>>>
             /\ inFlight' = inFlight \cup
                   {Execution(result'.id, result'.args, result'.handler)}]_vars

\* an execution completed with the result of a handler whose registration
\* was released while it was in flight, with an execution for another id
\* still in flight
C15_Witness ==
    /\ result.op = "settled"
    /\ result.status = "resolved"
    /\ result.value = executeOf(result.handler, result.args)
    /\ \A i \in 1..Len(HandlerList(result.id)) :
          HandlerList(result.id)[i] # result.handler
    /\ \E d \in 1..Len(disposables) :
          /\ disposables[d].id = result.id
          /\ disposables[d].handler = result.handler
          /\ disposables[d].releases = 1
    /\ \E e \in inFlight : e.id # result.id

\* the calls of the contributions of a list, one contribution after the other
RECURSIVE CallsOf(_)
CallsOf(contributions) ==
    IF contributions = <<>> THEN <<>>
    ELSE registerCommandsOf(Head(contributions)) \o CallsOf(Tail(contributions))

\* the position of the first call that registers a Command id that an
\* earlier call of the sequence registered; 0 when there is none
FirstDuplicate(calls) ==
    LET dup == {j \in 1..Len(calls) :
                   /\ calls[j].op = "registerCommand"
                   /\ \E i \in 1..(j - 1) : /\ calls[i].op = "registerCommand"
                                            /\ calls[i].id = calls[j].id}
    IN IF dup = {} THEN 0 ELSE CHOOSE j \in dup : \A k \in dup : j <= k

\* the handlers that the calls of a sequence pass for id, in call order
HandlersFor(calls, id) ==
    LET with == SelectSeq(calls, LAMBDA c : c.id = id /\ c.handler # undefined)
    IN [i \in 1..Len(with) |-> with[i].handler]

\* the Command ids that the calls of a sequence register, in call order
CommandIdsFor(calls) ==
    LET regs == SelectSeq(calls, LAMBDA c : c.op = "registerCommand")
    IN [i \in 1..Len(regs) |-> regs[i].id]

\* C16: when no contribution raises an error, onStart invokes
\* registerCommands once on every contribution of the provider, in the
\* provider's order, and the registrations land in this registry: the
\* handler list of every id holds the handlers of the contributions in
\* contribution order, and the command map the Commands they registered.
C16_OnStartFollowsProviderOrder ==
    [][(result'.op = "onStart"
        /\ FirstDuplicate(CallsOf(result'.contributions)) = 0)
        => LET calls == CallsOf(result'.contributions)
           IN /\ result'.status = "returned"
              /\ result'.called = result'.contributions
              /\ \A id \in Ids : HandlerList(id)' = HandlersFor(calls, id)
              /\ commandIds(_commands') = CommandIdsFor(calls)]_vars

\* onStart went through two contributions that register a handler for the
\* same id, the one without a Command first
C16_Witness ==
    /\ result.op = "onStart"
    /\ result.status = "returned"
    /\ result.called = <<"c2", "c1">>
    /\ HandlerList("A") = <<"h2", "h1">>
    /\ Registered("A")

\* C17: when the registerCommands of a contribution raises an error during
\* onStart (a Command id registered twice), the error leaves onStart, the
\* contributions after the failing one are not invoked, and what the
\* earlier contributions and the failing one registered before the error
\* stays registered.
C17_OnStartStopsAtError ==
    [][(result'.op = "onStart"
        /\ FirstDuplicate(CallsOf(result'.contributions)) # 0)
        => LET all == result'.contributions
               k == FirstDuplicate(CallsOf(all))
               done == SubSeq(CallsOf(all), 1, k - 1)
               n == CHOOSE n \in 1..Len(all) :
                       /\ Len(CallsOf(SubSeq(all, 1, n))) >= k
                       /\ Len(CallsOf(SubSeq(all, 1, n - 1))) < k
           IN /\ result'.status = "thrown"
              /\ result'.error = "alreadyRegistered"
              /\ result'.called = SubSeq(all, 1, n)
              /\ \A id \in Ids : HandlerList(id)' = HandlersFor(done, id)
              /\ commandIds(_commands') = CommandIdsFor(done)
              /\ Len(disposables') = k - 1]_vars

\* onStart failed in the second of three contributions, after that
\* contribution had registered a handler, and did not invoke the third
C17_Witness ==
    /\ result.op = "onStart"
    /\ result.status = "thrown"
    /\ result.contributions = <<"c1", "c3", "c2">>
    /\ result.called = <<"c1", "c3">>
    /\ HandlerList("B") = <<"h1">>
    /\ HandlerList("A") = <<"h1">>
    /\ Registered("A")

\* how often h occurs in list
Occurrences(list, h) == Cardinality({i \in 1..Len(list) : list[i] = h})

\* the registrations of h for id, by registerHandler or by registerCommand
\* with a handler, that were not released
Unreleased(id, h) ==
    {d \in 1..Len(disposables) :
        /\ disposables[d].id = id
        /\ disposables[d].handler = h
        /\ disposables[d].kind \in {"handler", "composite"}
        /\ disposables[d].releases = 0}

\* C18: one handler can be registered several times, for one id and for
\* several.  As long as no disposable was released more than once, h occurs
\* in the handler list of id as often as there are unreleased registrations
\* of h for id; and a release of a registration for id leaves the handler
\* list of every other id as it was.
C18_OccurrencesAreUnreleasedRegistrations ==
    [][/\ ReleasedAtMostOnce' =>
             \A id \in Ids, h \in Handlers :
                Occurrences(HandlerList(id), h)' = Cardinality(Unreleased(id, h))'
       /\ result'.op = "dispose" =>
             \A id \in Ids \ {result'.id} : HandlerList(id)' = HandlerList(id)]_vars

\* a handler was registered for two ids and its registration for one of
\* them was released: it is gone from that list and still in the other
C18_Witness ==
    /\ result.op = "dispose"
    /\ ReleasedAtMostOnce
    /\ result.handler # undefined
    /\ Occurrences(HandlerList(result.id), result.handler) = 0
    /\ \E id \in Ids \ {result.id} :
          /\ Occurrences(HandlerList(id), result.handler) = 1
          /\ Cardinality(Unreleased(id, result.handler)) = 1

\* C19: getActiveHandler, getVisibleHandler, isEnabled, isVisible,
\* getCommand, commands, commandIds and executeCommand leave the command map
\* and every handler list as they were.
C19_QueriesLeaveRegistryAlone ==
    [][result'.op \in {"getActiveHandler", "getVisibleHandler", "isEnabled",
                       "isVisible", "getCommand", "commands", "commandIds",
                       "executeCommand"}
        => /\ _commands' = _commands
           /\ _handlers' = _handlers]_vars

\* a handler was looked up for an id that has no handler list, while a
\* Command and a handler list of another id exist
C19_Witness ==
    /\ result.op = "getActiveHandler"
    /\ result.id \notin DOMAIN _handlers
    /\ result.handler = undefined
    /\ _commands # <<>>
    /\ \E id \in DOMAIN _handlers : _handlers[id] # <<>>

\* the registerCommand calls for id whose disposable was never released
UnreleasedCommands(id) ==
    {d \in 1..Len(disposables) :
        /\ disposables[d].id = id
        /\ disposables[d].kind \in {"command", "composite"}
        /\ disposables[d].releases = 0}

\* C20: an id is in the command map at most once; a registerCommand call
\* for an id whose earlier registrations were all released succeeds, and
\* getCommand then returns the Command it passed; a registerCommand call for
\* an id with a registration that was not released fails with the
\* duplicate-registration error.
C20_RegistrationRepeatableAfterRelease ==
    [][/\ \A id \in Ids :
             Cardinality({i \in 1..Len(_commands') : _commands'[i].id = id}) <= 1
       /\ result'.op = "registerCommand" =>
             IF UnreleasedCommands(result'.id) = {}
             THEN /\ result'.status = "returned"
                  /\ getCommand(_commands', result'.id) = result'.command
             ELSE /\ result'.status = "thrown"
                  /\ result'.error = "alreadyRegistered"]_vars

====
